---- MODULE Spec2Model ----
(***************************************************************************)
(* Model of the etymology explorer: the page (app/page.tsx), the flattening *)
(* of an etymology record (app/services/wordService.ts) and the node/edge   *)
(* projection of the flow diagram (app/components/EtymologyFlow.tsx).       *)
(*                                                                         *)
(* A record (RootWord / EtymologyWord) is a TLA+ record with the fields     *)
(* word, language, definition, etymology and roots.  An absent array and an *)
(* empty array are both the empty sequence: every place of the code that    *)
(* reads the two arrays treats "absent" and "empty" alike.  A JavaScript    *)
(* Map is a sequence of <<key, value>> pairs in insertion order.            *)
(***************************************************************************)
EXTENDS Integers, Sequences, FiniteSets, TLC

\* ------------------------------------------------------------------------
\* Bounds of the checked input space
\* ------------------------------------------------------------------------

\* Largest number of entries below the searched word (etymology chain plus
\* roots tree together).
MaxNodes == 3

\* The (word, definition) pairs an entry is drawn from; the surface word
\* "mundus" occurs with two different definitions, as in the sample record
\* "monde".
Entries ==
  { <<"mundus", "world">>, <<"mundus", "clean">>, <<"munde", "cleanly">> }

\* The terms typed into the search box.
SearchTerms == { "monde", "xyz" }

MkWord(e, etym, rts) ==
  [ word |-> e[1], language |-> "Latin", definition |-> e[2],
    etymology |-> etym, roots |-> rts ]

RECURSIVE ForestsOfSize(_)
\* All sequences of nested entries with exactly m entries in total.
ForestsOfSize(m) ==
  IF m = 0 THEN { <<>> }
  ELSE UNION { { <<MkWord(e, <<>>, sub)>> \o rest :
                   e \in Entries,
                   sub \in ForestsOfSize(k - 1),
                   rest \in ForestsOfSize(m - k) } : k \in 1..m }

\* Every searched record with at most MaxNodes entries below it.
Records ==
  UNION { { MkWord(e, et, ro) :
              e \in Entries,
              et \in ForestsOfSize(p[1]),
              ro \in ForestsOfSize(p[2]) } :
          p \in { q \in (0..MaxNodes) \X (0..MaxNodes) : q[1] + q[2] <= MaxNodes } }

\* Largest number of entries below the searched word of a malformed record.
MaxMalformedNodes == 2

RECURSIVE MalformedForestsOfSize(_)
\* As ForestsOfSize, but an entry may carry an etymology array of its own
\* (the data files are hand-written and not checked against the types).
MalformedForestsOfSize(m) ==
  IF m = 0 THEN { <<>> }
  ELSE UNION { UNION { { <<MkWord(e, et, sub)>> \o rest :
                           e \in Entries,
                           et \in MalformedForestsOfSize(a),
                           sub \in MalformedForestsOfSize(k - 1 - a),
                           rest \in MalformedForestsOfSize(m - k) } :
                       a \in 0..(k - 1) } : k \in 1..m }

\* Every searched record with at most MaxMalformedNodes entries below it,
\* etymology arrays of nested entries included.
MalformedRecords ==
  UNION { { MkWord(e, et, ro) :
              e \in Entries,
              et \in MalformedForestsOfSize(p[1]),
              ro \in MalformedForestsOfSize(p[2]) } :
          p \in { q \in (0..MaxMalformedNodes) \X (0..MaxMalformedNodes) :
                    q[1] + q[2] <= MaxMalformedNodes } }

\* ------------------------------------------------------------------------
\* JavaScript Map (insertion ordered; set() of a present key keeps its place)
\* ------------------------------------------------------------------------

EmptyMap == <<>>

MapHas(m, k) == \E i \in 1..Len(m) : m[i][1] = k

MapGet(m, k) == m[CHOOSE i \in 1..Len(m) : m[i][1] = k][2]

MapSet(m, k, v) ==
  IF MapHas(m, k)
  THEN [ i \in 1..Len(m) |-> IF m[i][1] = k THEN <<k, v>> ELSE m[i] ]
  ELSE Append(m, <<k, v>>)

\* ------------------------------------------------------------------------
\* wordService.ts: flattenEtymologyTree
\* ------------------------------------------------------------------------

RECURSIVE processRootsSiblingsFirst(_, _)
\* processRoots with the recursion moved after the loop: all entries of
\* rootWord.roots are pushed before any of them is recursed into.
processRootsSiblingsFirst(rootWord, result) ==
  LET RECURSIVE loop(_, _)
      loop(i, acc) ==
        IF i > Len(rootWord.roots) THEN acc
        ELSE loop(i + 1, processRootsSiblingsFirst(rootWord.roots[i], acc))
  IN  loop(1, result \o rootWord.roots)

RECURSIVE processRoots(_, _)
\* result after processRoots(rootWord): every entry of rootWord.roots is
\* pushed and then recursed into, before its next sibling.
processRoots(rootWord, result) ==
  LET RECURSIVE loop(_, _)
      loop(i, acc) ==
        IF i > Len(rootWord.roots) THEN acc
        ELSE loop(i + 1, processRoots(rootWord.roots[i],
                                      Append(acc, rootWord.roots[i])))
  IN  loop(1, result)

\* flattenEtymologyTree that skips an entry whose word was already pushed.
flattenEtymologyTreeDedup(word) ==
  LET all == processRoots(word, <<word>> \o word.etymology)
      firstOfWord(i) == \A j \in 1..(i - 1) : all[j].word # all[i].word
      RECURSIVE keep(_)
      keep(i) ==
        IF i > Len(all) THEN <<>>
        ELSE (IF firstOfWord(i) THEN <<all[i]>> ELSE <<>>) \o keep(i + 1)
  IN  keep(1)

\* flattenEtymologyTree without the push of the searched word itself.
flattenEtymologyTreeWithoutRoot(word) ==
  processRoots(word, word.etymology)

\* The loop over word.roots at the end of the function has the body of
\* processRoots, so it is processRoots applied to the searched word.
flattenEtymologyTree(word) ==
  LET r0 == <<word>>
      r1 == r0 \o word.etymology
  IN  processRoots(word, r1)

\* ------------------------------------------------------------------------
\* EtymologyFlow.tsx: node creation (first useMemo)
\* ------------------------------------------------------------------------

\* index of a HierarchicalWord before assignIndices has written it
NoIndex == -1

VERTICAL_SPACE == 200
HORIZONTAL_SPACE == 250

\* The HierarchicalWord objects live in a heap, a sequence in allocation
\* order; a reference is a position of the heap, and children holds
\* references.
HierarchicalWord(word, depth) ==
  [ word |-> word.word, language |-> word.language,
    definition |-> word.definition,
    etymology |-> word.etymology, roots |-> word.roots,
    children |-> <<>>, depth |-> depth, index |-> NoIndex ]

RECURSIVE buildSubtreeEtymologyAtAnyDepth(_, _, _)
\* buildSubtree without the depth === 0 test: the etymology array of every
\* entry becomes children.
buildSubtreeEtymologyAtAnyDepth(word, depth, heap) ==
  LET self == Len(heap) + 1
      kids == word.etymology \o word.roots
      RECURSIVE loop(_, _)
      loop(i, h) ==
        IF i > Len(kids) THEN h
        ELSE LET child == Len(h) + 1
                 h1 == buildSubtreeEtymologyAtAnyDepth(kids[i], depth + 1, h)
             IN  loop(i + 1, [h1 EXCEPT ![self].children = Append(@, child)])
  IN  loop(1, Append(heap, HierarchicalWord(word, depth)))

RECURSIVE buildSubtreeRootsFirst(_, _, _)
\* buildSubtree with the two loops exchanged: the roots become children
\* before the etymology entries.
buildSubtreeRootsFirst(word, depth, heap) ==
  LET self == Len(heap) + 1
      kids == word.roots \o (IF depth = 0 THEN word.etymology ELSE <<>>)
      RECURSIVE loop(_, _)
      loop(i, h) ==
        IF i > Len(kids) THEN h
        ELSE LET child == Len(h) + 1
                 h1 == buildSubtreeRootsFirst(kids[i], depth + 1, h)
             IN  loop(i + 1, [h1 EXCEPT ![self].children = Append(@, child)])
  IN  loop(1, Append(heap, HierarchicalWord(word, depth)))

RECURSIVE buildSubtree(_, _, _)
\* The heap after buildSubtree(word, depth); the new object is at position
\* Len(heap) + 1.
buildSubtree(word, depth, heap) ==
  LET self == Len(heap) + 1
      kids == (IF depth = 0 THEN word.etymology ELSE <<>>) \o word.roots
      RECURSIVE loop(_, _)
      loop(i, h) ==
        IF i > Len(kids) THEN h
        ELSE LET child == Len(h) + 1
                 h1 == buildSubtree(kids[i], depth + 1, h)
             IN  loop(i + 1, [h1 EXCEPT ![self].children = Append(@, child)])
  IN  loop(1, Append(heap, HierarchicalWord(word, depth)))

\* buildHierarchy: only words[0] is read; the tree root is reference 1.
buildHierarchy(words) == buildSubtree(words[1], 0, <<>>)

RECURSIVE collectByDepth(_, _, _)
\* depthMap: Map from depth to the list of references collected at it.
collectByDepth(heap, node, depthMap) ==
  LET d  == heap[node].depth
      m0 == IF MapHas(depthMap, d) THEN depthMap ELSE MapSet(depthMap, d, <<>>)
      m1 == MapSet(m0, d, Append(MapGet(m0, d), node))
      RECURSIVE loop(_, _)
      loop(i, m) ==
        IF i > Len(heap[node].children) THEN m
        ELSE loop(i + 1, collectByDepth(heap, heap[node].children[i], m))
  IN  loop(1, m1)

\* assignIndices writing the position of the depth's entry in depthMap
\* instead of the position of the object within the entry's list.
IndexOfDepthEntry(depthMap, node) ==
  LET e == CHOOSE i \in 1..Len(depthMap) :
             \E j \in 1..Len(depthMap[i][2]) : depthMap[i][2][j] = node
  IN  e - 1

\* The index every object gets: its position in the list of its depth.
IndexOf(depthMap, node) ==
  LET e == CHOOSE i \in 1..Len(depthMap) :
             \E j \in 1..Len(depthMap[i][2]) : depthMap[i][2][j] = node
      j == CHOOSE j \in 1..Len(depthMap[e][2]) : depthMap[e][2][j] = node
  IN  j - 1

\* assignIndices: [heap with index written, depthMap]
assignIndices(heap) ==
  LET depthMap == collectByDepth(heap, 1, EmptyMap)
  IN  [ heap |-> [ n \in 1..Len(heap) |->
                     [ heap[n] EXCEPT !.index = IndexOf(depthMap, n) ] ],
        depthMap |-> depthMap ]

\* The id test on the index instead of the depth.
NodeIdMainByIndex(word, depth, index) ==
  IF index = 0 THEN "main"
  ELSE word \o "_" \o ToString(depth) \o "_" \o ToString(index)

\* The id without the index.
NodeIdWithoutIndex(word, depth, index) ==
  IF depth = 0 THEN "main"
  ELSE word \o "_" \o ToString(depth)

\* `${word.word}_${depth}_${index}`, or 'main' at depth 0
NodeId(word, depth, index) ==
  IF depth = 0 THEN "main"
  ELSE word \o "_" \o ToString(depth) \o "_" \o ToString(index)

\* x counted from 0 instead of from startX: the row is not centred.
NodeXFromZero(n, index) == index * HORIZONTAL_SPACE

\* startX = -totalWidth / 2 with totalWidth = (n - 1) * HORIZONTAL_SPACE,
\* which is even, so the division is exact.
NodeX(n, index) ==
  (0 - (((n - 1) * HORIZONTAL_SPACE) \div 2)) + index * HORIZONTAL_SPACE

NodeY(depth) == depth * VERTICAL_SPACE

\* createNodes: [newNodes, nodeMap]; data is the reference of the
\* HierarchicalWord the node carries.
createNodes(heap, depthMap) ==
  LET RECURSIVE row(_, _, _, _)
      row(nodesAtDepth, depth, i, acc) ==
        IF i > Len(nodesAtDepth) THEN acc
        ELSE LET ref    == nodesAtDepth[i]
                 index  == i - 1
                 nodeId == NodeId(heap[ref].word, depth, index)
                 node   == [ id |-> nodeId,
                             position |-> [ x |-> NodeX(Len(nodesAtDepth), index),
                                            y |-> NodeY(depth) ],
                             data |-> ref ]
             IN  row(nodesAtDepth, depth, i + 1,
                     [ newNodes |-> Append(acc.newNodes, node),
                       nodeMap  |-> MapSet(acc.nodeMap, heap[ref].word, nodeId) ])
      RECURSIVE levels(_, _)
      levels(k, acc) ==
        IF k > Len(depthMap) THEN acc
        ELSE levels(k + 1, row(depthMap[k][2], depthMap[k][1], 1, acc))
  IN  levels(1, [ newNodes |-> <<>>, nodeMap |-> EmptyMap ])

RECURSIVE flattenHierarchy(_, _, _)
\* parentWordMap: Map from a child's word to its parent's word.
flattenHierarchy(heap, root, parentWordMap) ==
  LET RECURSIVE loop(_, _)
      loop(i, m) ==
        IF i > Len(heap[root].children) THEN m
        ELSE LET child == heap[root].children[i]
             IN  loop(i + 1,
                      flattenHierarchy(heap, child,
                        MapSet(m, heap[child].word, heap[root].word)))
  IN  loop(1, parentWordMap)

\* ------------------------------------------------------------------------
\* EtymologyFlow.tsx: edge creation (second useMemo)
\* ------------------------------------------------------------------------

\* The edge id without the target.
EdgeIdSourceOnly(sourceId, targetId) == "e_" \o sourceId

EdgeId(sourceId, targetId) == "e_" \o sourceId \o "_to_" \o targetId

\* createEdges with the parent's word, not its node id, as edge source.
createEdgesSourceWord(parentChildMap, nodeIdMap) ==
  LET RECURSIVE loop(_, _)
      loop(i, newEdges) ==
        IF i > Len(parentChildMap) THEN newEdges
        ELSE LET childWord  == parentChildMap[i][1]
                 parentWord == parentChildMap[i][2]
                 targetId   == MapGet(nodeIdMap, childWord)
             IN  loop(i + 1,
                      Append(newEdges,
                             [ id |-> "e_" \o parentWord \o "_to_" \o targetId,
                               source |-> parentWord, target |-> targetId ]))
  IN  loop(1, <<>>)

\* The value handed to setEdges, for a memo that got past its guard.
createEdges(parentChildMap, nodeIdMap) ==
  LET RECURSIVE loop(_, _)
      loop(i, newEdges) ==
        IF i > Len(parentChildMap) THEN newEdges
        ELSE LET childWord  == parentChildMap[i][1]
                 parentWord == parentChildMap[i][2]
             IN  IF MapHas(nodeIdMap, parentWord) /\ MapHas(nodeIdMap, childWord)
                 THEN LET sourceId == MapGet(nodeIdMap, parentWord)
                          targetId == MapGet(nodeIdMap, childWord)
                          edgeId   == EdgeId(sourceId, targetId)
                      IN  IF \E k \in 1..Len(newEdges) : newEdges[k].id = edgeId
                          THEN loop(i + 1, newEdges)
                          ELSE loop(i + 1,
                                    Append(newEdges,
                                           [ id |-> edgeId, source |-> sourceId,
                                             target |-> targetId ]))
                 ELSE loop(i + 1, newEdges)
  IN  loop(1, <<>>)

\* The edges state after the memo ran with the given state: it returns
\* without setEdges when there is at most one node or a map is empty.
edgeMemo(nodes_, parentChildMap_, nodeIdMap_, edges_) ==
  IF Len(nodes_) <= 1 \/ Len(parentChildMap_) = 0 \/ Len(nodeIdMap_) = 0
  THEN edges_
  ELSE createEdges(parentChildMap_, nodeIdMap_)

\* ------------------------------------------------------------------------
\* State
\* ------------------------------------------------------------------------

\* A nullable value is a sequence of length at most one: <<>> is null.
VARIABLES
  dataSource,      \* the record the data source holds for a found word
  inFlight,        \* the search terms of the handleSearch calls awaiting
  loading,         \* page.tsx useState: loading
  error,           \* page.tsx useState: error (nullable message)
  searchedWord,    \* page.tsx useState: searchedWord (nullable)
  etymologyData,   \* page.tsx useState: etymologyData (nullable record)
  flattenedWords,  \* page.tsx useState: flattenedWords
  flowPc,          \* render position of the EtymologyFlow component
  nodes,           \* EtymologyFlow useNodesState
  edges,           \* EtymologyFlow useEdgesState
  parentChildMap,  \* EtymologyFlow useState: parentChildMap
  nodeIdMap,       \* EtymologyFlow useState: nodeIdMap
  hierarchicalTree,\* the HierarchicalWord objects the nodes' data refer to
  flowOutput,      \* what the last render of EtymologyFlow returned
  cyKind,          \* the recursion under way: processRoots or buildSubtree
  cyRoots,         \* object graph: the roots array (references) of each object
  cyStack,         \* call stack of the recursion: frames [node, i]
  cyVisited,       \* the references pushed to result / copied to the hierarchy
  cyOutcome,       \* "idle", "running", "returned" or "RangeError"
  genWord,         \* generator script: word.word of the record it writes
  genLanguage,     \* generator script: word.language of that record
  repoFiles,       \* paths of the files of the repository
  isDev,           \* wordService.ts: isDev
  ftTerm,          \* getWordEtymology: the argument word (characters)
  ftPc,            \* getWordEtymology: position
  ftIndex,         \* getWordEtymology: index of the language loop
  normalizedWord,  \* getWordEtymology: normalizedWord (characters)
  ftRequested,     \* the requests sent so far, in order
  ftResult,        \* what the promise resolved to (nullable)
  tlRecord,        \* the record whose flattening Timeline receives
  tlWords,         \* Timeline: words
  tlPc,            \* Timeline: position
  wordsWithYears,  \* Timeline: wordsWithYears
  tlOutput,        \* Timeline: what render returned
  objHeap,         \* the objects in memory, input entries first
  objInput,        \* the input entries as they were before the calls
  objPc,           \* position of the caller of the transformation
  objResult        \* what flattenEtymologyTree returned (references)

pageVars == << loading, error, searchedWord, etymologyData, flattenedWords >>
flowVars == << flowPc, nodes, edges, parentChildMap, nodeIdMap, hierarchicalTree,
               flowOutput >>

\* The variables of the machines that are not part of the page.
cyclicVars == << cyKind, cyRoots, cyStack, cyVisited, cyOutcome >>
fetchVars == << genWord, genLanguage, repoFiles, isDev, ftTerm, ftPc, ftIndex,
                normalizedWord, ftRequested, ftResult >>
timelineVars == << tlRecord, tlWords, tlPc, wordsWithYears, tlOutput >>
objectVars == << objHeap, objInput, objPc, objResult >>
otherVars == << cyclicVars, fetchVars, timelineVars, objectVars >>
appVars == << dataSource, inFlight, pageVars, flowVars >>

vars == << dataSource, inFlight, loading, error, searchedWord, etymologyData,
           flattenedWords, flowPc, nodes, edges, parentChildMap, nodeIdMap,
           hierarchicalTree, flowOutput, otherVars >>

\* The branch of Home's render that applies to a page state.
View(etymologyData_, loading_, error_) ==
  IF etymologyData_ = <<>> /\ ~loading_ /\ error_ = <<>> THEN "initial"
  ELSE IF loading_ THEN "loading"
  ELSE IF error_ # <<>> THEN "error"
  ELSE "results"

CurrentView == View(etymologyData, loading, error)

NotFoundMessage(word) == "No etymology data found for \"" \o word \o "\""

\* The EtymologyFlow component is rendered by the results view only; a
\* component that is not rendered has no state, and a newly mounted one
\* starts from the useState initial values.
FlowUnmounted ==
  /\ flowPc' = "unmounted"
  /\ nodes' = <<>>
  /\ edges' = <<>>
  /\ parentChildMap' = EmptyMap
  /\ nodeIdMap' = EmptyMap
  /\ hierarchicalTree' = <<>>
  /\ flowOutput' = ""

FlowMounted ==
  /\ flowPc' = "mount"
  /\ nodes' = <<>>
  /\ edges' = <<>>
  /\ parentChildMap' = EmptyMap
  /\ nodeIdMap' = EmptyMap
  /\ hierarchicalTree' = <<>>
  /\ flowOutput' = ""

NoDataMessage == "No etymology data available"

\* The render without the test for missing words.
FlowOutputAlwaysFlow(words) == "ReactFlow"

\* What EtymologyFlow returns: the message, or the ReactFlow element that
\* draws nodes and edges.
FlowOutput(words) ==
  IF Len(words) = 0 THEN NoDataMessage ELSE "ReactFlow"

\* The state of the page after construction, with no EtymologyFlow.
PageInit ==
  /\ inFlight = <<>>
  /\ loading = FALSE
  /\ error = <<>>
  /\ searchedWord = <<>>
  /\ etymologyData = <<>>
  /\ flattenedWords = <<>>
  /\ flowPc = "unmounted"
  /\ nodes = <<>>
  /\ edges = <<>>
  /\ parentChildMap = EmptyMap
  /\ nodeIdMap = EmptyMap
  /\ hierarchicalTree = <<>>
  /\ flowOutput = ""

\* The other machines at rest.
CyclicIdle ==
  /\ cyKind = "none"
  /\ cyRoots = <<>>
  /\ cyStack = <<>>
  /\ cyVisited = <<>>
  /\ cyOutcome = "idle"

FetchIdle ==
  /\ genWord = <<>>
  /\ genLanguage = ""
  /\ repoFiles = <<>>
  /\ isDev = FALSE
  /\ ftTerm = <<>>
  /\ ftPc = "idle"
  /\ ftIndex = 0
  /\ normalizedWord = <<>>
  /\ ftRequested = <<>>
  /\ ftResult = <<>>

TimelineIdle ==
  /\ tlRecord = <<>>
  /\ tlWords = <<>>
  /\ tlPc = "idle"
  /\ wordsWithYears = <<>>
  /\ tlOutput = [message |-> "", markers |-> <<>>, left |-> <<>>]

ObjectIdle ==
  /\ objHeap = <<>>
  /\ objInput = <<>>
  /\ objPc = "idle"
  /\ objResult = <<>>

OthersIdle == CyclicIdle /\ FetchIdle /\ TimelineIdle /\ ObjectIdle

\* The page and its component, not constructed.
AppIdle ==
  /\ dataSource = MkWord(<<"munde", "cleanly">>, <<>>, <<>>)
  /\ PageInit

Init ==
  /\ dataSource \in Records
  /\ PageInit
  /\ OthersIdle

\* ------------------------------------------------------------------------
\* page.tsx
\* ------------------------------------------------------------------------

HandleSearchStartAnyView(word) ==
  /\ flowPc \in { "unmounted", "rendered" }
  /\ loading' = TRUE
  /\ error' = <<>>
  /\ searchedWord' = <<word>>
  /\ inFlight' = Append(inFlight, word)
  /\ FlowUnmounted
  /\ UNCHANGED << dataSource, etymologyData, flattenedWords >>
  /\ UNCHANGED otherVars

\* handleSearch up to its await: the search box exists in the initial and
\* the results view only, and an event is handled between renders, never
\* inside one.  The state updates are rendered (the loading view replaces
\* the results view, unmounting EtymologyFlow) before the awaited promise
\* settles.
HandleSearchStart(word) ==
  /\ CurrentView \in { "initial", "results" }
  /\ flowPc \in { "unmounted", "rendered" }
  /\ loading' = TRUE
  /\ error' = <<>>
  /\ searchedWord' = <<word>>
  /\ inFlight' = Append(inFlight, word)
  /\ FlowUnmounted
  /\ UNCHANGED << dataSource, etymologyData, flattenedWords >>
  /\ UNCHANGED otherVars

HandleSearchSettleKeepsData(i, data) ==
  /\ i \in 1..Len(inFlight)
  /\ inFlight' = [ j \in 1..(Len(inFlight) - 1) |->
                     IF j < i THEN inFlight[j] ELSE inFlight[j + 1] ]
  /\ IF data = <<>>
     THEN /\ error' = << NotFoundMessage(inFlight[i]) >>
          /\ UNCHANGED << etymologyData, flattenedWords >>
     ELSE /\ etymologyData' = data
          /\ flattenedWords' = flattenEtymologyTree(data[1])
          /\ error' = error
  /\ loading' = FALSE
  /\ IF View(etymologyData', loading', error') = "results"
     THEN IF CurrentView = "results" THEN UNCHANGED flowVars ELSE FlowMounted
     ELSE FlowUnmounted
  /\ UNCHANGED << dataSource, searchedWord >>
  /\ UNCHANGED otherVars

HandleSearchSettleKeepsWords(i, data) ==
  /\ i \in 1..Len(inFlight)
  /\ inFlight' = [ j \in 1..(Len(inFlight) - 1) |->
                     IF j < i THEN inFlight[j] ELSE inFlight[j + 1] ]
  /\ IF data = <<>>
     THEN /\ error' = << NotFoundMessage(inFlight[i]) >>
          /\ etymologyData' = <<>>
          /\ flattenedWords' = <<>>
     ELSE /\ etymologyData' = data
          /\ flattenedWords' = flattenedWords
          /\ error' = error
  /\ loading' = FALSE
  /\ IF View(etymologyData', loading', error') = "results"
     THEN IF CurrentView = "results" THEN UNCHANGED flowVars ELSE FlowMounted
     ELSE FlowUnmounted
  /\ UNCHANGED << dataSource, searchedWord >>
  /\ UNCHANGED otherVars

\* handleSearch after its await, for the i-th call in flight:
\* getWordEtymology resolved to data (null, or the record of the source).
HandleSearchSettle(i, data) ==
  /\ i \in 1..Len(inFlight)
  /\ inFlight' = [ j \in 1..(Len(inFlight) - 1) |->
                     IF j < i THEN inFlight[j] ELSE inFlight[j + 1] ]
  /\ IF data = <<>>
     THEN /\ error' = << NotFoundMessage(inFlight[i]) >>
          /\ etymologyData' = <<>>
          /\ flattenedWords' = <<>>
     ELSE /\ etymologyData' = data
          /\ flattenedWords' = flattenEtymologyTree(data[1])
          /\ error' = error
  /\ loading' = FALSE
  /\ IF View(etymologyData', loading', error') = "results"
     THEN IF CurrentView = "results" THEN UNCHANGED flowVars ELSE FlowMounted
     ELSE FlowUnmounted
  /\ UNCHANGED << dataSource, searchedWord >>
  /\ UNCHANGED otherVars

\* The Try Again button of the error view.
TryAgain ==
  /\ CurrentView = "error"
  /\ error' = <<>>
  /\ searchedWord' = <<>>
  /\ UNCHANGED << dataSource, inFlight, loading, etymologyData, flattenedWords >>
  /\ UNCHANGED flowVars
  /\ UNCHANGED otherVars

\* ------------------------------------------------------------------------
\* EtymologyFlow.tsx: the renders of a mounted component
\* ------------------------------------------------------------------------

\* First render: the node memo runs on words and sets nodes, parentChildMap
\* and nodeIdMap; the edge memo of the same render still reads the state of
\* before these updates.
FlowRenderNodes ==
  /\ flowPc = "mount"
  /\ IF Len(flattenedWords) = 0
     THEN UNCHANGED << nodes, parentChildMap, nodeIdMap, hierarchicalTree >>
     ELSE LET tree == assignIndices(buildHierarchy(flattenedWords))
              made == createNodes(tree.heap, tree.depthMap)
          IN  /\ nodes' = made.newNodes
              /\ nodeIdMap' = made.nodeMap
              /\ parentChildMap' = flattenHierarchy(tree.heap, 1, EmptyMap)
              /\ hierarchicalTree' = tree.heap
  /\ edges' = edgeMemo(nodes, parentChildMap, nodeIdMap, edges)
  /\ flowPc' = "rerender"
  /\ flowOutput' = FlowOutput(flattenedWords)
  /\ UNCHANGED << dataSource, inFlight >>
  /\ UNCHANGED pageVars
  /\ UNCHANGED otherVars

\* The render the state updates cause: the node memo is skipped (words is
\* the same), the edge memo runs on the new nodes and maps.
FlowRenderEdges ==
  /\ flowPc = "rerender"
  /\ edges' = edgeMemo(nodes, parentChildMap, nodeIdMap, edges)
  /\ flowPc' = "rendered"
  /\ flowOutput' = FlowOutput(flattenedWords)
  /\ UNCHANGED << dataSource, inFlight, nodes, parentChildMap, nodeIdMap,
                  hierarchicalTree >>
  /\ UNCHANGED pageVars
  /\ UNCHANGED otherVars

Next ==
  \/ \E word \in SearchTerms : HandleSearchStart(word)
  \/ \E i \in 1..Len(inFlight), data \in { <<>>, <<dataSource>> } :
        HandleSearchSettle(i, data)
  \/ TryAgain
  \/ FlowRenderNodes
  \/ FlowRenderEdges

Spec == Init /\ [][Next]_vars

\* ------------------------------------------------------------------------
\* page.tsx: handleSearch's catch branch
\* ------------------------------------------------------------------------

\* The messages of the errors that end the try block: the awaited promise
\* rejected, or flattenEtymologyTree threw on a record it cannot walk.
ThrownMessages == { "Failed to fetch", "word.roots is not iterable" }

ErrorMessage(message) == "Error: " \o message

HandleSearchCatchWithoutFinally(i, message) ==
  /\ i \in 1..Len(inFlight)
  /\ inFlight' = [ j \in 1..(Len(inFlight) - 1) |->
                     IF j < i THEN inFlight[j] ELSE inFlight[j + 1] ]
  /\ error' = << ErrorMessage(message) >>
  /\ etymologyData' = <<>>
  /\ flattenedWords' = <<>>
  /\ loading' = loading
  /\ FlowUnmounted
  /\ UNCHANGED << dataSource, searchedWord >>
  /\ UNCHANGED otherVars

\* handleSearch after its await, for the i-th call in flight, when the try
\* block threw: the catch branch, then finally.
HandleSearchCatch(i, message) ==
  /\ i \in 1..Len(inFlight)
  /\ inFlight' = [ j \in 1..(Len(inFlight) - 1) |->
                     IF j < i THEN inFlight[j] ELSE inFlight[j + 1] ]
  /\ error' = << ErrorMessage(message) >>
  /\ etymologyData' = <<>>
  /\ flattenedWords' = <<>>
  /\ loading' = FALSE
  /\ FlowUnmounted
  /\ UNCHANGED << dataSource, searchedWord >>
  /\ UNCHANGED otherVars

Settles ==
  \/ \E i \in 1..Len(inFlight), data \in { <<>>, <<dataSource>> } :
        HandleSearchSettle(i, data)
  \/ \E i \in 1..Len(inFlight), message \in ThrownMessages :
        HandleSearchCatch(i, message)

NextThrow ==
  \/ \E word \in SearchTerms : HandleSearchStart(word)
  \/ Settles
  \/ TryAgain
  \/ FlowRenderNodes
  \/ FlowRenderEdges

\* The page with every way a search can end.
SpecThrow == Init /\ [][NextThrow]_vars

\* The same, for searches whose try block ends: the awaited promise settles
\* and the continuation of handleSearch is run.
SpecThrowFair == SpecThrow /\ WF_vars(Settles)

\* The page fed by a data source whose record may be malformed.
InitMalformed ==
  /\ dataSource \in MalformedRecords
  /\ PageInit
  /\ OthersIdle

SpecMalformed == InitMalformed /\ [][Next]_vars

\* EtymologyFlow mounted on its own, with no words or with the flattening
\* of a record.
InitComponent ==
  /\ dataSource \in Records
  /\ inFlight = <<>>
  /\ loading = FALSE
  /\ error = <<>>
  /\ searchedWord = <<>>
  /\ etymologyData = <<>>
  /\ flattenedWords \in { <<>>, flattenEtymologyTree(dataSource) }
  /\ flowPc = "mount"
  /\ nodes = <<>>
  /\ edges = <<>>
  /\ parentChildMap = EmptyMap
  /\ nodeIdMap = EmptyMap
  /\ hierarchicalTree = <<>>
  /\ flowOutput = ""
  /\ OthersIdle

NextComponent ==
  \/ FlowRenderNodes
  \/ FlowRenderEdges

SpecComponent == InitComponent /\ [][NextComponent]_vars

\* ------------------------------------------------------------------------
\* The recursions of processRoots (wordService.ts) and buildSubtree
\* (EtymologyFlow.tsx) over records held as objects: roots holds references,
\* so a record can contain itself.  Both functions recurse into every roots
\* entry with no depth limit and no visited set; the engine ends a recursion
\* that exhausts its call stack with a RangeError.
\* ------------------------------------------------------------------------

\* Number of objects of the graph and largest length of a roots array.
MaxCyNodes == 3
MaxCyDegree == 1

\* Frames the call stack holds: more than any acyclic graph of MaxCyNodes
\* objects needs.
StackLimit == MaxCyNodes + 2

SeqsUpTo(S, n) == UNION { [ 1..k -> S ] : k \in 0..n }

InitCyclic ==
  /\ AppIdle
  /\ FetchIdle
  /\ TimelineIdle
  /\ ObjectIdle
  /\ cyKind \in { "processRoots", "buildSubtree" }
  /\ cyRoots \in [ 1..MaxCyNodes -> SeqsUpTo(1..MaxCyNodes, MaxCyDegree) ]
  /\ cyStack = << [ node |-> 1, i |-> 1 ] >>
  /\ cyVisited = << 1 >>
  /\ cyOutcome = "running"

\* The loop of the top frame reaches an entry and calls itself on it.
\* processRoots pushes the entry before the call; buildSubtree copies it
\* at the start of the called function.
CyclicCall ==
  /\ cyOutcome = "running"
  /\ LET top   == cyStack[Len(cyStack)]
         kids  == cyRoots[top.node]
     IN  /\ top.i <= Len(kids)
         /\ Len(cyStack) < StackLimit
         /\ cyVisited' = Append(cyVisited, kids[top.i])
         /\ cyStack' = Append([ cyStack EXCEPT ![Len(cyStack)].i = top.i + 1 ],
                              [ node |-> kids[top.i], i |-> 1 ])
  /\ UNCHANGED << cyKind, cyRoots, cyOutcome >>
  /\ UNCHANGED << appVars, fetchVars, timelineVars, objectVars >>

\* The call of CyclicCall with the call stack full: the engine throws.
CyclicOverflow ==
  /\ cyOutcome = "running"
  /\ LET top   == cyStack[Len(cyStack)]
         kids  == cyRoots[top.node]
     IN  /\ top.i <= Len(kids)
         /\ Len(cyStack) >= StackLimit
         /\ cyVisited' = IF cyKind = "processRoots"
                         THEN Append(cyVisited, kids[top.i])
                         ELSE cyVisited
  /\ cyOutcome' = "RangeError"
  /\ cyStack' = <<>>
  /\ UNCHANGED << cyKind, cyRoots >>
  /\ UNCHANGED << appVars, fetchVars, timelineVars, objectVars >>

\* The loop of the top frame is over: the function returns.
CyclicReturn ==
  /\ cyOutcome = "running"
  /\ LET top == cyStack[Len(cyStack)]
     IN  /\ top.i > Len(cyRoots[top.node])
         /\ cyStack' = SubSeq(cyStack, 1, Len(cyStack) - 1)
         /\ cyOutcome' = IF Len(cyStack) = 1 THEN "returned" ELSE "running"
  /\ UNCHANGED << cyKind, cyRoots, cyVisited >>
  /\ UNCHANGED << appVars, fetchVars, timelineVars, objectVars >>

NextCyclic ==
  \/ CyclicCall
  \/ CyclicOverflow
  \/ CyclicReturn

SpecCyclic == InitCyclic /\ [][NextCyclic]_vars

\* ------------------------------------------------------------------------
\* getWordEtymology and the generator scripts (wordService.ts,
\* generate_final_etymologies.js).  A string is a sequence of one-character
\* strings, so that letter case and trimming are computed, not assumed.
\* ------------------------------------------------------------------------

UpperCase == << "A","B","C","D","E","F","G","H","I","J","K","L","M",
                "N","O","P","Q","R","S","T","U","V","W","X","Y","Z" >>
LowerCase == << "a","b","c","d","e","f","g","h","i","j","k","l","m",
                "n","o","p","q","r","s","t","u","v","w","x","y","z" >>

\* String.prototype.toLowerCase on one character.
charToLowerCase(c) ==
  IF \E k \in 1..Len(UpperCase) : UpperCase[k] = c
  THEN LowerCase[CHOOSE k \in 1..Len(UpperCase) : UpperCase[k] = c]
  ELSE c

charToUpperCase(c) ==
  IF \E k \in 1..Len(LowerCase) : LowerCase[k] = c
  THEN UpperCase[CHOOSE k \in 1..Len(LowerCase) : LowerCase[k] = c]
  ELSE c

toLowerCase(chars) == [k \in 1..Len(chars) |-> charToLowerCase(chars[k])]

RECURSIVE trimStart(_)
trimStart(chars) ==
  IF chars # <<>> /\ Head(chars) = " " THEN trimStart(Tail(chars)) ELSE chars

RECURSIVE trimEnd(_)
trimEnd(chars) ==
  IF chars # <<>> /\ chars[Len(chars)] = " "
  THEN trimEnd(SubSeq(chars, 1, Len(chars) - 1))
  ELSE chars

\* String.prototype.trim.
trim(chars) == trimEnd(trimStart(chars))

\* String.prototype.charAt(0): the empty string when there is no character.
charAt0(chars) == IF chars = <<>> THEN "" ELSE chars[1]

\* The string a sequence of characters spells.
RECURSIVE Str(_)
Str(chars) == IF chars = <<>> THEN "" ELSE Head(chars) \o Str(Tail(chars))

DATA_PATH == "data/words"
RAW_BASE == "https://raw.githubusercontent.com/Ponchia/etymology-website/main/"
LANGUAGESGreekFirst == << "Greek", "English", "French", "Latin" >>

\* The language directories, in the order of the two loops.
LANGUAGES == << "English", "French", "Latin", "Greek" >>

\* The path getWordEtymology asks for in one language directory.
FetchPath(language, normalized) ==
  DATA_PATH \o "/" \o language \o "/" \o charToLowerCase(charAt0(normalized))
    \o "/" \o Str(normalized) \o ".json"

GeneratorFilePathCaseKept(word, language) ==
  "data/words/" \o language \o "/" \o charToLowerCase(charAt0(word))
    \o "/" \o Str(word) \o ".json"

\* The path a generator script writes a record to.
GeneratorFilePath(word, language) ==
  "data/words/" \o language \o "/" \o charToLowerCase(charAt0(word))
    \o "/" \o Str(toLowerCase(word)) \o ".json"

\* A record as getWordEtymology's callers see it: what it is, and the two
\* fields the storage path is computed from.
EtymologyRecord(word, language) ==
  [kind |-> "record", word |-> word, language |-> language]

\* SAMPLE_DATA's own keys, and the property names every object literal
\* inherits from Object.prototype that are lower-case and hold a truthy
\* value.
SAMPLE_KEYS == << <<"etymology", "English">>, <<"philosophy", "English">>,
                 <<"monde", "French">>, <<"amor", "Latin">>,
                 <<"polis", "Greek">> >>
INHERITED_KEYS == { "constructor", "__proto__" }

\* SAMPLE_DATA[key]: nullable, <<>> is undefined.
SAMPLE_DATA(key) ==
  IF MapHas(SAMPLE_KEYS, key)
  THEN << EtymologyRecord(key, MapGet(SAMPLE_KEYS, key)) >>
  ELSE IF key \in INHERITED_KEYS
       THEN << [kind |-> "inherited", word |-> key, language |-> ""] >>
       ELSE <<>>

\* The words a generator run writes, and the search terms typed.
GeneratedStems == { <<"a","m","o","r">>, <<"z","e","a","l">> }
OtherTerms == { <<"x","y">>,
                <<"c","o","n","s","t","r","u","c","t","o","r">> }
CaseVariants(w) ==
  { v \in [1..Len(w) -> { w[k] : k \in 1..Len(w) }
                          \cup { charToUpperCase(w[k]) : k \in 1..Len(w) }] :
      \A k \in 1..Len(w) : v[k] \in { w[k], charToUpperCase(w[k]) } }
GeneratedWords == UNION { CaseVariants(w) : w \in GeneratedStems }
TermsFor(word) ==
  CaseVariants(toLowerCase(word)) \cup OtherTerms
    \cup { <<" ">> \o word \o <<" ">>, << Head(word), "-" >> \o Tail(word) }

\* What one request can answer.  A file that is not in the repository is
\* never served; any request can fail.
RawOutcomes(path) ==
  { "throws", "not ok", "bad body" }
    \cup (IF MapHas(repoFiles, path) THEN { "ok" } ELSE {})
ApiOutcomes(path) ==
  { "throws", "no content" }
    \cup (IF MapHas(repoFiles, path) THEN { "ok" } ELSE {})

InitFetch ==
  /\ AppIdle
  /\ CyclicIdle
  /\ TimelineIdle
  /\ ObjectIdle
  /\ genWord \in GeneratedWords
  /\ genLanguage \in { LANGUAGES[k] : k \in 1..Len(LANGUAGES) }
  /\ repoFiles = EmptyMap
  /\ isDev \in BOOLEAN
  /\ ftTerm \in TermsFor(genWord)
  /\ ftPc = "generate"
  /\ ftIndex = 0
  /\ normalizedWord = <<>>
  /\ ftRequested = <<>>
  /\ ftResult = <<>>

FetchSame == UNCHANGED << genWord, genLanguage, isDev, ftTerm >>
NotFetch == UNCHANGED << appVars, cyclicVars, timelineVars, objectVars >>

\* A generator script writes the record it holds to its file.
GeneratorWrite ==
  /\ ftPc = "generate"
  /\ repoFiles' = MapSet(repoFiles, GeneratorFilePath(genWord, genLanguage),
                         EtymologyRecord(Str(genWord), genLanguage))
  /\ ftPc' = "call"
  /\ UNCHANGED << ftIndex, normalizedWord, ftRequested, ftResult >>
  /\ FetchSame
  /\ NotFetch

\* getWordEtymology, from the call to the branch on isDev.
FetchStart ==
  /\ ftPc = "call"
  /\ normalizedWord' = trim(toLowerCase(ftTerm))
  /\ ftPc' = IF isDev THEN "dev" ELSE "raw"
  /\ UNCHANGED << repoFiles, ftIndex, ftRequested, ftResult >>
  /\ FetchSame
  /\ NotFetch

\* Development mode: the sample record when the lookup is truthy, else the
\* function waits half a second.
FetchDev ==
  /\ ftPc = "dev"
  /\ IF SAMPLE_DATA(Str(normalizedWord)) # <<>>
     THEN /\ ftResult' = SAMPLE_DATA(Str(normalizedWord))
          /\ ftPc' = "done"
     ELSE /\ ftResult' = ftResult
          /\ ftPc' = "delay"
  /\ UNCHANGED << repoFiles, ftIndex, normalizedWord, ftRequested >>
  /\ FetchSame
  /\ NotFetch

\* Development mode, after the delay: null.
FetchDevDelay ==
  /\ ftPc = "delay"
  /\ ftResult' = <<>>
  /\ ftPc' = "done"
  /\ UNCHANGED << repoFiles, ftIndex, normalizedWord, ftRequested >>
  /\ FetchSame
  /\ NotFetch

\* Production: the first raw URL, in the English directory.  Every
\* failure is caught and the function goes on to the language loop.
FetchRaw ==
  /\ ftPc = "raw"
  /\ LET path == FetchPath("English", normalizedWord) IN
       /\ ftRequested' =
            Append(ftRequested,
                   [via |-> "raw", url |-> RAW_BASE \o path, path |-> path])
       /\ \E outcome \in RawOutcomes(path) :
            IF outcome = "ok"
            THEN /\ ftResult' = << MapGet(repoFiles, path) >>
                 /\ ftPc' = "done"
                 /\ ftIndex' = ftIndex
            ELSE /\ ftResult' = ftResult
                 /\ ftPc' = "lang"
                 /\ ftIndex' = 1
  /\ UNCHANGED << repoFiles, normalizedWord >>
  /\ FetchSame
  /\ NotFetch

\* Production: one turn of the loop over the raw URLs of the language
\* directories.
FetchLang ==
  /\ ftPc = "lang"
  /\ LET path == FetchPath(LANGUAGES[ftIndex], normalizedWord) IN
       /\ ftRequested' =
            Append(ftRequested,
                   [via |-> "raw", url |-> RAW_BASE \o path, path |-> path])
       /\ \E outcome \in RawOutcomes(path) :
            IF outcome = "ok"
            THEN /\ ftResult' = << MapGet(repoFiles, path) >>
                 /\ ftPc' = "done"
                 /\ ftIndex' = ftIndex
            ELSE /\ ftResult' = ftResult
                 /\ IF ftIndex < Len(LANGUAGES)
                    THEN ftPc' = "lang" /\ ftIndex' = ftIndex + 1
                    ELSE ftPc' = "api" /\ ftIndex' = 1
  /\ UNCHANGED << repoFiles, normalizedWord >>
  /\ FetchSame
  /\ NotFetch

\* Production: one turn of the loop over the GitHub API paths.
FetchApi ==
  /\ ftPc = "api"
  /\ LET path == FetchPath(LANGUAGES[ftIndex], normalizedWord) IN
       /\ ftRequested' =
            Append(ftRequested, [via |-> "api", url |-> "", path |-> path])
       /\ \E outcome \in ApiOutcomes(path) :
            IF outcome = "ok"
            THEN /\ ftResult' = << MapGet(repoFiles, path) >>
                 /\ ftPc' = "done"
                 /\ ftIndex' = ftIndex
            ELSE /\ ftResult' = ftResult
                 /\ IF ftIndex < Len(LANGUAGES)
                    THEN ftPc' = "api" /\ ftIndex' = ftIndex + 1
                    ELSE ftPc' = "fallback" /\ ftIndex' = ftIndex
  /\ UNCHANGED << repoFiles, normalizedWord >>
  /\ FetchSame
  /\ NotFetch

\* Production: every request failed; the sample record when the lookup is
\* truthy, else null.
FetchFallback ==
  /\ ftPc = "fallback"
  /\ ftResult' = SAMPLE_DATA(Str(normalizedWord))
  /\ ftPc' = "done"
  /\ UNCHANGED << repoFiles, ftIndex, normalizedWord, ftRequested >>
  /\ FetchSame
  /\ NotFetch

NextFetch ==
  \/ GeneratorWrite
  \/ FetchStart
  \/ FetchDev
  \/ FetchDevDelay
  \/ FetchRaw
  \/ FetchLang
  \/ FetchApi
  \/ FetchFallback

SpecFetch == InitFetch /\ [][NextFetch]_vars

\* ------------------------------------------------------------------------
\* Timeline.tsx: the timeline of the flattened entries of a record
\* ------------------------------------------------------------------------

\* Largest number of entries below the record the timeline is drawn for.
MaxTimelineNodes == 3

\* The (word, year) pairs an entry is drawn from; year is nullable, <<>>
\* being a year that is null or absent.
YearEntries ==
  { <<"monde", <<1050>>>>, <<"mundus", <<>>>>,
    <<"amor", <<-100>>>>, <<"anno", <<0>>>> }

MkYearWord(e, etym, rts) ==
  [ word |-> e[1], language |-> "Latin", definition |-> "", year |-> e[2],
    etymology |-> etym, roots |-> rts ]

RECURSIVE YearForestsOfSize(_)
YearForestsOfSize(m) ==
  IF m = 0 THEN { <<>> }
  ELSE UNION { { <<MkYearWord(e, <<>>, sub)>> \o rest :
                   e \in YearEntries,
                   sub \in YearForestsOfSize(k - 1),
                   rest \in YearForestsOfSize(m - k) } : k \in 1..m }

YearRecords ==
  UNION { { MkYearWord(e, et, ro) :
              e \in YearEntries,
              et \in YearForestsOfSize(p[1]),
              ro \in YearForestsOfSize(p[2]) } :
          p \in { q \in (0..MaxTimelineNodes) \X (0..MaxTimelineNodes) :
                    q[1] + q[2] <= MaxTimelineNodes } }

HasYearAlways(word) == TRUE

\* The filter's test, word.year != null.
HasYear(word) == word.year # <<>>

\* word.year as a number in the subtraction of the comparator: a null
\* year becomes 0.
YearNumber(word) == IF word.year = <<>> THEN 0 ELSE word.year[1]

\* Array.prototype.filter with HasYear.
RECURSIVE filterWithYears(_)
filterWithYears(words) ==
  IF words = <<>> THEN <<>>
  ELSE (IF HasYear(Head(words)) THEN << Head(words) >> ELSE <<>>)
         \o filterWithYears(Tail(words))

\* Array.prototype.sort with (a, b) => a.year - b.year: a stable sort, an
\* entry goes behind every entry that does not compare greater.
RECURSIVE sortByYear(_)
sortByYear(words) ==
  IF words = <<>> THEN <<>>
  ELSE LET last == words[Len(words)]
           rest == sortByYear(SubSeq(words, 1, Len(words) - 1))
           k == Cardinality({ j \in 1..Len(rest) :
                                YearNumber(rest[j]) - YearNumber(last) <= 0 })
       IN  SubSeq(rest, 1, k) \o << last >> \o SubSeq(rest, k + 1, Len(rest))

\* years: word.year as number, for every entry of wordsWithYears.
YearsOf(words) == { YearNumber(words[k]) : k \in 1..Len(words) }

\* Math.min and Math.max of a non-empty set of numbers.
MinOf(S) == CHOOSE x \in S : \A y \in S : x <= y
MaxOf(S) == CHOOSE x \in S : \A y \in S : x >= y

\* ((yearValue - minYear) / yearRange) * 100 as the exact fraction
\* num / den.  With yearRange 0 the numerator is 0 too (every year is the
\* minimum), and 0 / 0 is NaN.
MarkerPosition(yearValue, minYear, yearRange) ==
  IF yearRange = 0
  THEN [ nan |-> TRUE, num |-> 0, den |-> 0 ]
  ELSE [ nan |-> FALSE, num |-> (yearValue - minYear) * 100,
         den |-> yearRange ]

NotEnoughMessage == "Not enough dated words"

InitTimeline ==
  /\ AppIdle
  /\ CyclicIdle
  /\ FetchIdle
  /\ ObjectIdle
  /\ tlRecord \in { << r >> : r \in YearRecords }
  /\ tlWords = <<>>
  /\ tlPc = "flatten"
  /\ wordsWithYears = <<>>
  /\ tlOutput = [message |-> "", markers |-> <<>>, left |-> <<>>]

NotTimeline == UNCHANGED << appVars, cyclicVars, fetchVars, objectVars >>

\* The caller flattens the record and hands the entries to Timeline.
TimelineFlatten ==
  /\ tlPc = "flatten"
  /\ tlWords' = flattenEtymologyTree(tlRecord[1])
  /\ tlPc' = "render"
  /\ UNCHANGED << tlRecord, wordsWithYears, tlOutput >>
  /\ NotTimeline

\* Timeline's render: filter, sort, then the message when at most one
\* entry is dated, else one marker for each dated entry.
TimelineRender ==
  /\ tlPc = "render"
  /\ wordsWithYears' = sortByYear(filterWithYears(tlWords))
  /\ tlOutput' =
       IF Len(wordsWithYears') <= 1
       THEN [message |-> NotEnoughMessage, markers |-> <<>>, left |-> <<>>]
       ELSE LET minYear == MinOf(YearsOf(wordsWithYears'))
                maxYear == MaxOf(YearsOf(wordsWithYears'))
                yearRange == maxYear - minYear
            IN  [ message |-> "",
                  markers |-> wordsWithYears',
                  left |-> [ k \in 1..Len(wordsWithYears') |->
                               MarkerPosition(YearNumber(wordsWithYears'[k]),
                                              minYear, yearRange) ] ]
  /\ tlPc' = "done"
  /\ UNCHANGED << tlRecord, tlWords >>
  /\ NotTimeline

NextTimeline == TimelineFlatten \/ TimelineRender

SpecTimeline == InitTimeline /\ [][NextTimeline]_vars

\* Largest number of entries below a record handed to a mounted
\* EtymologyFlow whose words change.
MaxPropsNodes == 1

PropsRecords ==
  UNION { { MkWord(e, et, ro) :
              e \in Entries,
              et \in ForestsOfSize(p[1]),
              ro \in ForestsOfSize(p[2]) } :
          p \in { q \in (0..MaxPropsNodes) \X (0..MaxPropsNodes) :
                    q[1] + q[2] <= MaxPropsNodes } }

\* EtymologyFlow mounted with the flattening of a record, by a parent that
\* keeps it mounted while it hands it other records.
InitProps ==
  /\ dataSource \in PropsRecords
  /\ inFlight = <<>>
  /\ loading = FALSE
  /\ error = <<>>
  /\ searchedWord = <<>>
  /\ etymologyData = <<>>
  /\ flattenedWords = flattenEtymologyTree(dataSource)
  /\ flowPc = "mount"
  /\ nodes = <<>>
  /\ edges = <<>>
  /\ parentChildMap = EmptyMap
  /\ nodeIdMap = EmptyMap
  /\ hierarchicalTree = <<>>
  /\ flowOutput = ""
  /\ OthersIdle

\* The parent renders the mounted component with the words of another
\* record: the component's state stays, and it renders again.
FlowWordsChange(record) ==
  /\ flowPc = "rendered"
  /\ record # dataSource
  /\ dataSource' = record
  /\ flattenedWords' = flattenEtymologyTree(record)
  /\ flowPc' = "mount"
  /\ UNCHANGED << nodes, edges, parentChildMap, nodeIdMap, hierarchicalTree,
                  flowOutput >>
  /\ UNCHANGED << inFlight, loading, error, searchedWord, etymologyData >>
  /\ UNCHANGED otherVars

NextProps ==
  \/ FlowRenderNodes
  \/ FlowRenderEdges
  \/ \E record \in PropsRecords : FlowWordsChange(record)

SpecProps == InitProps /\ [][NextProps]_vars

\* ------------------------------------------------------------------------
\* The transformation at the level of object references: the entries of
\* the input record are objects of the heap, and arrays hold references,
\* so that a write to an input entry would show.
\* ------------------------------------------------------------------------

\* depth of an object that has no depth field
NoDepth == -1

RECURSIVE loadObject(_, _)
\* The heap after the record word and its nested entries were put on it;
\* the record is at position Len(heap) + 1.
loadObject(word, heap) ==
  LET self == Len(heap) + 1
      h0 == Append(heap,
              [ word |-> word.word, language |-> word.language,
                definition |-> word.definition,
                etymology |-> <<>>, roots |-> <<>>,
                children |-> <<>>, depth |-> NoDepth, index |-> NoIndex ])
      RECURSIVE loopE(_, _)
      loopE(i, h) ==
        IF i > Len(word.etymology) THEN h
        ELSE LET child == Len(h) + 1
                 h1 == loadObject(word.etymology[i], h)
             IN  loopE(i + 1, [h1 EXCEPT ![self].etymology = Append(@, child)])
      RECURSIVE loopR(_, _)
      loopR(i, h) ==
        IF i > Len(word.roots) THEN h
        ELSE LET child == Len(h) + 1
                 h1 == loadObject(word.roots[i], h)
             IN  loopR(i + 1, [h1 EXCEPT ![self].roots = Append(@, child)])
  IN  loopR(1, loopE(1, h0))

RECURSIVE processRootsRef(_, _, _)
\* processRoots on references: it reads roots and pushes to result only.
processRootsRef(heap, rootWord, result) ==
  LET RECURSIVE loop(_, _)
      loop(i, acc) ==
        IF i > Len(heap[rootWord].roots) THEN acc
        ELSE loop(i + 1,
                  processRootsRef(heap, heap[rootWord].roots[i],
                                  Append(acc, heap[rootWord].roots[i])))
  IN  loop(1, result)

\* flattenEtymologyTree on references.
flattenEtymologyTreeRef(heap, word) ==
  processRootsRef(heap, word, <<word>> \o heap[word].etymology)

RECURSIVE buildSubtreeRefInPlace(_, _, _)
\* buildSubtree that writes children and depth to the entry itself
\* instead of to a spread copy.
buildSubtreeRefInPlace(word, depth, heap) ==
  LET kids == (IF depth = 0 THEN heap[word].etymology ELSE <<>>)
                \o heap[word].roots
      RECURSIVE loop(_, _)
      loop(i, h) ==
        IF i > Len(kids) THEN h
        ELSE LET h1 == buildSubtreeRefInPlace(kids[i], depth + 1, h).heap
             IN  loop(i + 1,
                      [h1 EXCEPT ![word].children = Append(@, kids[i])])
  IN  [ heap |-> loop(1, [heap EXCEPT ![word].children = <<>>,
                                      ![word].depth = depth]),
        node |-> word ]

RECURSIVE buildSubtreeRef(_, _, _)
\* buildSubtree on references: [heap, node], node being the object
\* { ...word, children: [], depth } it allocated; the copy is shallow, its
\* roots and etymology are the arrays of the entry.
buildSubtreeRef(word, depth, heap) ==
  LET self == Len(heap) + 1
      h0 == Append(heap, [heap[word] EXCEPT !.children = <<>>,
                                            !.depth = depth])
      kids == (IF depth = 0 THEN heap[word].etymology ELSE <<>>)
                \o heap[word].roots
      RECURSIVE loop(_, _)
      loop(i, h) ==
        IF i > Len(kids) THEN h
        ELSE LET built == buildSubtreeRef(kids[i], depth + 1, h)
             IN  loop(i + 1,
                      [built.heap EXCEPT
                         ![self].children = Append(@, built.node)])
  IN  [ heap |-> loop(1, h0), node |-> self ]

\* assignIndices on references: node.index is written on every object
\* collectByDepth reached from tree.
assignIndicesRef(heap, tree) ==
  LET depthMap == collectByDepth(heap, tree, EmptyMap)
      reached == UNION { { depthMap[k][2][j] : j \in 1..Len(depthMap[k][2]) } :
                         k \in 1..Len(depthMap) }
  IN  [ n \in 1..Len(heap) |->
          IF n \in reached
          THEN [ heap[n] EXCEPT !.index = IndexOf(depthMap, n) ]
          ELSE heap[n] ]

InitObject ==
  /\ AppIdle
  /\ CyclicIdle
  /\ FetchIdle
  /\ TimelineIdle
  /\ objHeap \in { loadObject(r, <<>>) : r \in Records }
  /\ objInput = objHeap
  /\ objPc = "flatten"
  /\ objResult = <<>>

NotObject == UNCHANGED << appVars, cyclicVars, fetchVars, timelineVars >>

\* page.tsx: flattenEtymologyTree(data).
ObjectFlatten ==
  /\ objPc = "flatten"
  /\ objResult' = flattenEtymologyTreeRef(objHeap, 1)
  /\ objPc' = "build"
  /\ UNCHANGED << objHeap, objInput >>
  /\ NotObject

\* EtymologyFlow's node memo: buildHierarchy on words[0], then
\* assignIndices on the tree it returned.
ObjectBuild ==
  /\ objPc = "build"
  /\ LET built == buildSubtreeRef(objResult[1], 0, objHeap)
     IN  objHeap' = assignIndicesRef(built.heap, built.node)
  /\ objPc' = "done"
  /\ UNCHANGED << objInput, objResult >>
  /\ NotObject

NextObject == ObjectFlatten \/ ObjectBuild

SpecObject == InitObject /\ [][NextObject]_vars

\* ------------------------------------------------------------------------
\* Properties
\* ------------------------------------------------------------------------

\* The searched record on display (defined when etymologyData is non-null).
Root == etymologyData[1]

\* The component has created its nodes.
NodesCreated == flowPc \in { "rerender", "rendered" }

\* The component has finished rendering: nodes and edges are what is drawn.
Rendered == flowPc = "rendered"

NodeIds == { nodes[i].id : i \in 1..Len(nodes) }

\* The HierarchicalWord a node carries as data.
DataOf(i) == hierarchicalTree[nodes[i].data]

\* The node created for a HierarchicalWord reference.
NodeOfRef(ref) == CHOOSE i \in 1..Len(nodes) : nodes[i].data = ref

HasEdge(sourceId, targetId) ==
  \E k \in 1..Len(edges) : edges[k].source = sourceId /\ edges[k].target = targetId

RECURSIVE PreOrder(_)
\* Depth-first pre-order of a forest: the first tree's root, the pre-order
\* of its roots, then the remaining trees.
PreOrder(forest) ==
  IF forest = <<>> THEN <<>>
  ELSE <<Head(forest)>> \o PreOrder(Head(forest).roots) \o PreOrder(Tail(forest))

RECURSIVE ForestSize(_)
ForestSize(forest) ==
  IF forest = <<>> THEN 0
  ELSE 1 + ForestSize(Head(forest).roots) + ForestSize(Tail(forest))

\* C1: the flattened sequence is the searched record, then its etymology
\* entries in array order, then the depth-first pre-order of its roots tree;
\* so it has at least one element and element 0 is the record itself.
C1_FlattenOrder ==
  etymologyData # <<>> =>
    /\ Len(flattenedWords) >= 1
    /\ flattenedWords[1] = Root
    /\ flattenedWords = <<Root>> \o Root.etymology \o PreOrder(Root.roots)

\* C1 witness: a flattened record whose first root has roots of its own and
\* a later sibling (pre-order and breadth-first order differ).
C1_Witness ==
  /\ etymologyData # <<>>
  /\ Len(Root.roots) >= 2
  /\ Root.roots[1].roots # <<>>
  /\ Len(flattenedWords) = 4

\* C2: flattening keeps duplicates: the length of the flattened sequence is
\* 1 + the number of etymology entries + the number of nodes of the roots
\* tree, also when entries share a word string.
C2_FlattenKeepsMultiplicity ==
  etymologyData # <<>> =>
    Len(flattenedWords) = 1 + Len(Root.etymology) + ForestSize(Root.roots)

\* C2 witness: a flattened sequence in which two entries are equal.
C2_Witness ==
  /\ etymologyData # <<>>
  /\ \E i, j \in 1..Len(flattenedWords) :
       i # j /\ flattenedWords[i] = flattenedWords[j]

\* C3: exactly one node has id "main"; it is the only node at depth 0 and
\* its data carries the searched record (words[0]).
C3_ExactlyOneMain ==
  NodesCreated =>
    /\ Cardinality({ i \in 1..Len(nodes) : nodes[i].id = "main" }) = 1
    /\ \A i \in 1..Len(nodes) :
         (nodes[i].id = "main") <=> (DataOf(i).depth = 0)
    /\ \A i \in 1..Len(nodes) :
         nodes[i].id = "main" =>
           /\ DataOf(i).word = flattenedWords[1].word
           /\ DataOf(i).language = flattenedWords[1].language
           /\ DataOf(i).definition = flattenedWords[1].definition
           /\ DataOf(i).etymology = flattenedWords[1].etymology
           /\ DataOf(i).roots = flattenedWords[1].roots
           /\ flattenedWords[1] = Root

\* C3 witness: a rendered graph with a node below the root that has the
\* root's word.
C3_Witness ==
  /\ Rendered
  /\ \E i \in 1..Len(nodes) :
       DataOf(i).depth > 0 /\ DataOf(i).word = Root.word

\* Scenario C: the roots array holds two entries with the same word and
\* different definitions.
ScenarioC(record) ==
  \E i, j \in 1..Len(record.roots) :
    /\ i < j
    /\ record.roots[i].word = record.roots[j].word
    /\ record.roots[i].definition # record.roots[j].definition

\* C4: in Scenario C there are two distinct nodes for the two entries and
\* an edge from "main" to each of them.
C4_ScenarioCTwoEdges ==
  (Rendered /\ ScenarioC(Root)) =>
    \A i, j \in 1..Len(Root.roots) :
      (i < j /\ Root.roots[i].word = Root.roots[j].word
             /\ Root.roots[i].definition # Root.roots[j].definition) =>
        LET kids == hierarchicalTree[1].children
            off  == Len(Root.etymology)
            ni   == nodes[NodeOfRef(kids[off + i])].id
            nj   == nodes[NodeOfRef(kids[off + j])].id
        IN  ni # nj /\ HasEdge("main", ni) /\ HasEdge("main", nj)

\* C5: the edge set is loss-free: every parent -> child link of the
\* hierarchical tree has exactly one edge, so there are as many edges as
\* nodes minus one.
C5_EdgesLossFree ==
  Rendered =>
    /\ \A p \in 1..Len(hierarchicalTree) :
         \A c \in 1..Len(hierarchicalTree[p].children) :
           Cardinality({ k \in 1..Len(edges) :
              /\ edges[k].source = nodes[NodeOfRef(p)].id
              /\ edges[k].target =
                   nodes[NodeOfRef(hierarchicalTree[p].children[c])].id }) = 1
    /\ Len(edges) = Len(nodes) - 1

\* C6: no dangling edges: the source and the target of every edge are ids
\* of nodes of the node set.
C6_NoDanglingEdges ==
  \A k \in 1..Len(edges) :
    edges[k].source \in NodeIds /\ edges[k].target \in NodeIds

\* C6 witness: a rendered graph with at least two edges.
C6_Witness == Rendered /\ Len(edges) >= 2

\* C7: no two edges share the ordered pair (source, target); an edge id is
\* the composite of its source and target, and edge ids are unique.
C7_EdgesUnique ==
  /\ \A k, l \in 1..Len(edges) :
       k # l =>
         /\ << edges[k].source, edges[k].target >>
              # << edges[l].source, edges[l].target >>
         /\ edges[k].id # edges[l].id
  /\ \A k \in 1..Len(edges) :
       edges[k].id = "e_" \o edges[k].source \o "_to_" \o edges[k].target

\* C7 witness: a rendered graph with two edges out of the same node.
C7_Witness ==
  /\ Rendered
  /\ \E k, l \in 1..Len(edges) : k # l /\ edges[k].source = edges[l].source

\* C8: node ids are unique: the root has id "main", every other node has
\* the id word_depth_index.
C8_NodeIdsUnique ==
  NodesCreated =>
    /\ \A i, j \in 1..Len(nodes) : i # j => nodes[i].id # nodes[j].id
    /\ \A i \in 1..Len(nodes) :
         nodes[i].id =
           IF DataOf(i).depth = 0 THEN "main"
           ELSE DataOf(i).word \o "_" \o ToString(DataOf(i).depth)
                               \o "_" \o ToString(DataOf(i).index)

\* C8 witness: two nodes of a rendered graph have the same word.
C8_Witness ==
  /\ Rendered
  /\ \E i, j \in 1..Len(nodes) :
       i # j /\ DataOf(i).depth > 0 /\ DataOf(j).depth > 0
             /\ DataOf(i).word = DataOf(j).word

\* Scenario B: no roots and no etymology.
ScenarioB(record) == record.roots = <<>> /\ record.etymology = <<>>

\* C9: in Scenario B the flattened sequence is exactly the record, and the
\* rendered graph is the node "main" alone with no edge.
C9_ScenarioB ==
  (etymologyData # <<>> /\ ScenarioB(Root)) =>
    /\ flattenedWords = <<Root>>
    /\ Rendered =>
         /\ Len(nodes) = 1
         /\ nodes[1].id = "main"
         /\ edges = <<>>

\* C9 witness: a Scenario B record has been rendered.
C9_Witness == etymologyData # <<>> /\ ScenarioB(Root) /\ Rendered

\* C10: nodes of one depth never overlap: their indices are pairwise
\* distinct and are 0..n-1, and two nodes with the same y differ in x.
C10_NoOverlap ==
  NodesCreated =>
    /\ \A i, j \in 1..Len(nodes) :
         (i # j /\ DataOf(i).depth = DataOf(j).depth) =>
           DataOf(i).index # DataOf(j).index
    /\ \A i \in 1..Len(nodes) :
         DataOf(i).index \in
           0..(Cardinality({ j \in 1..Len(nodes) :
                               DataOf(j).depth = DataOf(i).depth }) - 1)
    /\ \A i, j \in 1..Len(nodes) :
         (i # j /\ nodes[i].position.y = nodes[j].position.y) =>
           nodes[i].position.x # nodes[j].position.x

\* C10 witness: a rendered graph with three nodes at one depth.
C10_Witness ==
  /\ Rendered
  /\ \E i, j, k \in 1..Len(nodes) :
       /\ i # j /\ j # k /\ i # k
       /\ DataOf(i).depth = DataOf(j).depth
       /\ DataOf(j).depth = DataOf(k).depth

\* The nodes created for the HierarchicalWords of one depth.
NodesAtDepth(d) == { i \in 1..Len(nodes) : DataOf(i).depth = d }

RECURSIVE SumX(_)
SumX(S) ==
  IF S = {} THEN 0
  ELSE LET i == CHOOSE j \in S : TRUE
       IN  nodes[i].position.x + SumX(S \ { i })

\* C11: a node at depth d has y = d * 200; the k-th node of a row of n has
\* x = (k - (n-1)/2) * 250 (stated doubled, to stay in the integers), so
\* the x of a row sum to 0 and "main" is at (0, 0).
C11_Layout ==
  NodesCreated =>
    /\ \A i \in 1..Len(nodes) :
         LET d == DataOf(i).depth
             k == DataOf(i).index
             n == Cardinality(NodesAtDepth(d))
         IN  /\ nodes[i].position.y = d * 200
             /\ 2 * nodes[i].position.x = (2 * k - (n - 1)) * 250
             /\ SumX(NodesAtDepth(d)) = 0
    /\ \A i \in 1..Len(nodes) :
         nodes[i].id = "main" => nodes[i].position = [ x |-> 0, y |-> 0 ]

\* C11 witness: a rendered graph with a row of two nodes (x = -125, 125)
\* and a row of one node below the root.
C11_Witness ==
  /\ Rendered
  /\ \E d, e \in 1..Len(nodes) :
       Cardinality(NodesAtDepth(d)) = 2 /\ Cardinality(NodesAtDepth(e)) = 1

\* The record fields of a HierarchicalWord.
AsWord(h) ==
  [ word |-> h.word, language |-> h.language, definition |-> h.definition,
    etymology |-> h.etymology, roots |-> h.roots ]

RECURSIVE RootsOfAll(_)
\* The roots of the entries of a level, concatenated in the level's order.
RootsOfAll(level) ==
  IF level = <<>> THEN <<>>
  ELSE Head(level).roots \o RootsOfAll(Tail(level))

RECURSIVE Level(_, _)
\* The entries at depth d below (and including) a searched record.
Level(record, d) ==
  IF d = 0 THEN << record >>
  ELSE IF d = 1 THEN record.etymology \o record.roots
  ELSE RootsOfAll(Level(record, d - 1))

\* C12: depth 0 is the root, depth 1 the etymology entries followed by the
\* roots entries, every deeper level the roots of the level above; the
\* index of a node is its position within its level.
C12_DepthAndIndex ==
  NodesCreated =>
    /\ \A i \in 1..Len(nodes) :
         LET d == DataOf(i).depth
             k == DataOf(i).index
         IN  /\ k + 1 \in 1..Len(Level(Root, d))
             /\ AsWord(DataOf(i)) = Level(Root, d)[k + 1]
    /\ \A d \in 0..Len(nodes) :
         Cardinality(NodesAtDepth(d)) = Len(Level(Root, d))

\* C12 witness: a rendered graph whose depth 1 holds an etymology entry and
\* a roots entry, with a node at depth 2.
C12_Witness ==
  /\ Rendered
  /\ Root.etymology # <<>>
  /\ Root.roots # <<>>
  /\ NodesAtDepth(2) # {}

RECURSIVE StripForest(_)
\* A forest without the etymology arrays of its entries, at every depth.
StripForest(forest) ==
  IF forest = <<>> THEN <<>>
  ELSE << [ Head(forest) EXCEPT !.etymology = <<>>,
                                !.roots = StripForest(Head(forest).roots) ] >>
       \o StripForest(Tail(forest))

\* A searched record whose nested entries carry no etymology.
StripRecord(record) ==
  [ record EXCEPT !.etymology = StripForest(record.etymology),
                  !.roots = StripForest(record.roots) ]

\* Ids of the nodes and the edges the component makes of a words array.
Projection(words) ==
  LET tree == assignIndices(buildHierarchy(words))
      made == createNodes(tree.heap, tree.depthMap)
      pcm  == flattenHierarchy(tree.heap, 1, EmptyMap)
  IN  [ ids   |-> [ i \in 1..Len(made.newNodes) |-> made.newNodes[i].id ],
        edges |-> edgeMemo(made.newNodes, pcm, made.nodeMap, <<>>) ]

\* C15: an etymology array on a nested entry is ignored: the flattened
\* sequence, the nodes and the edges are those of the same record without
\* the nested etymology arrays.
C15_NestedEtymologyIgnored ==
  etymologyData # <<>> =>
    LET clean == StripRecord(Root)
        flat  == flattenEtymologyTree(clean)
    IN  /\ Len(flattenedWords) = Len(flat)
        /\ \A i \in 1..Len(flat) :
             /\ flattenedWords[i].word = flat[i].word
             /\ flattenedWords[i].definition = flat[i].definition
             /\ i > 1 => StripForest(<< flattenedWords[i] >>) = << flat[i] >>
        /\ Rendered =>
             /\ [ i \in 1..Len(nodes) |-> nodes[i].id ] = Projection(flat).ids
             /\ edges = Projection(flat).edges

\* C15 witness: a record with an etymology array on a roots entry has been
\* rendered.
C15_Witness ==
  /\ Rendered
  /\ \E i \in 1..Len(Root.roots) : Root.roots[i].etymology # <<>>

\* C16: without words the component returns the message "No etymology data
\* available" and has built no node and no edge.
C16_NoData ==
  (flowPc \in { "rerender", "rendered" } /\ Len(flattenedWords) = 0) =>
    /\ flowOutput = "No etymology data available"
    /\ nodes = <<>>
    /\ edges = <<>>
    /\ hierarchicalTree = <<>>

\* C16 witness: a component given no words has finished rendering.
C16_Witness == flowPc = "rendered" /\ Len(flattenedWords) = 0

RECURSIVE ReachableFrom(_)
\* The objects reachable from a set of objects through roots, the set
\* itself included.
ReachableFrom(S) ==
  LET T == S \cup UNION { { cyRoots[n][k] : k \in 1..Len(cyRoots[n]) } : n \in S }
  IN  IF T = S THEN S ELSE ReachableFrom(T)

\* The record (object 1) contains, directly or transitively, an object
\* whose roots lead back to itself.
HasCycle ==
  \E n \in ReachableFrom({ 1 }) :
    n \in ReachableFrom({ cyRoots[n][k] : k \in 1..Len(cyRoots[n]) })

\* C14: on cyclic data the recursion is guarded: it ends by returning, not
\* by exhausting the call stack.
C14_CyclicGuarded ==
  (HasCycle /\ cyOutcome # "running") => cyOutcome = "returned"

\* On a tree or any other acyclic graph both recursions return.
AcyclicReturns ==
  (cyOutcome = "RangeError") => HasCycle

\* ------------------------------------------------------------------------
\* C17, C20: getWordEtymology
\* ------------------------------------------------------------------------

FetchDone == ftPc = "done"

\* C17: whatever the search term and whatever the requests answer,
\* getWordEtymology resolves to a record or to null.
C17_RecordOrNull ==
  FetchDone => (ftResult = <<>> \/ ftResult[1].kind = "record")

IsCaseVariant(a, b) == toLowerCase(a) = toLowerCase(b)

\* C20: in production, the path a generator wrote an English, French,
\* Latin or Greek word to is among the paths a search for that word, typed
\* in any letter case, has asked for by the time it resolves or gives up on
\* the repository.
C20_StoragePathCompatible ==
  (~isDev /\ ftPc \in { "fallback", "done" } /\ IsCaseVariant(ftTerm, genWord))
    => \A k \in 1..Len(repoFiles) :
         \E r \in 1..Len(ftRequested) : ftRequested[r].path = repoFiles[k][1]

\* A Greek word generated with capitals, searched in another letter case
\* that is not sample data, and found in the repository.
C20_Witness ==
  /\ ~isDev
  /\ FetchDone
  /\ genLanguage = "Greek"
  /\ genWord # toLowerCase(genWord)
  /\ ftTerm # genWord
  /\ IsCaseVariant(ftTerm, genWord)
  /\ SAMPLE_DATA(Str(normalizedWord)) = <<>>
  /\ ftResult = << EtymologyRecord(Str(genWord), "Greek") >>

\* ------------------------------------------------------------------------
\* C18: Scenario D
\* ------------------------------------------------------------------------

SearchSettles == Len(inFlight') < Len(inFlight)

\* C18: a search that resolves leaves either a record and no error, or,
\* when it resolved to null, the error view with the message "No etymology
\* data found" for the searched word, loading false, etymologyData null,
\* flattenedWords empty and no EtymologyFlow mounted or drawn.
C18_ScenarioD ==
  [][ SearchSettles =>
        IF etymologyData' = <<>>
        THEN /\ View(etymologyData', loading', error') = "error"
             /\ error' = << NotFoundMessage(searchedWord'[1]) >>
             /\ ~loading'
             /\ flattenedWords' = <<>>
             /\ flowPc' = "unmounted"
             /\ nodes' = <<>> /\ edges' = <<>>
             /\ flowOutput' = ""
        ELSE error' = <<>> ]_vars

\* The error view once a search for "xyz" is over.
C18_Witness ==
  /\ CurrentView = "error"
  /\ inFlight = <<>>
  /\ searchedWord = << "xyz" >>
  /\ error = << NotFoundMessage("xyz") >>
  /\ etymologyData = <<>>
  /\ flattenedWords = <<>>

\* ------------------------------------------------------------------------
\* C19: null years
\* ------------------------------------------------------------------------

\* Number of positions of seq that hold x.
Occurrences(seq, x) == Cardinality({ k \in 1..Len(seq) : seq[k] = x })

SameEntries(a, b) ==
  \A x \in { a[k] : k \in 1..Len(a) } \cup { b[k] : k \in 1..Len(b) } :
    Occurrences(a, x) = Occurrences(b, x)

\* The entries of words whose year is not null, in the order of words.
Dated(words) == SelectSeq(words, LAMBDA w : w.year # <<>>)

RECURSIVE UndatedBelow(_)
\* Number of entries with a null year in a roots array, nested roots
\* included.
UndatedBelow(forest) ==
  IF forest = <<>> THEN 0
  ELSE (IF Head(forest).year = <<>> THEN 1 ELSE 0)
         + UndatedBelow(Head(forest).roots) + UndatedBelow(Tail(forest))

\* Number of entries with a null year that flattening has to keep.
UndatedOf(record) ==
  (IF record.year = <<>> THEN 1 ELSE 0)
    + Len(SelectSeq(record.etymology, LAMBDA w : w.year = <<>>))
    + UndatedBelow(record.roots)

Ascending(words) ==
  \A k \in 1..(Len(words) - 1) : words[k].year[1] <= words[k + 1].year[1]

FlattenKeepsUndated ==
  tlPc \in { "render", "done" } =>
    Len(SelectSeq(tlWords, LAMBDA w : w.year = <<>>)) = UndatedOf(tlRecord[1])

\* C19 as stated: flattening keeps every entry with a null year, and the
\* markers of the timeline are exactly the entries with a year, in
\* ascending order of year.
C19_DisplaysExactlyDated ==
  /\ FlattenKeepsUndated
  /\ tlPc = "done" =>
       /\ \A k \in 1..Len(tlOutput.markers) : tlOutput.markers[k].year # <<>>
       /\ SameEntries(tlOutput.markers, Dated(tlWords))
       /\ Ascending(tlOutput.markers)

\* C19, amended: flattening keeps every entry with a null year; Timeline
\* keeps exactly the entries with a year, in ascending order of year, and
\* draws a marker for each of them when they are two or more; when at most
\* one entry has a year it draws no marker and says "Not enough dated
\* words".
C19_DisplaysDatedWhenTwoOrMore ==
  /\ FlattenKeepsUndated
  /\ tlPc = "done" =>
       /\ \A k \in 1..Len(wordsWithYears) : wordsWithYears[k].year # <<>>
       /\ SameEntries(wordsWithYears, Dated(tlWords))
       /\ Ascending(wordsWithYears)
       /\ IF Len(Dated(tlWords)) >= 2
          THEN tlOutput.message = "" /\ tlOutput.markers = wordsWithYears
          ELSE /\ tlOutput.message = NotEnoughMessage
               /\ tlOutput.markers = <<>>

\* A timeline drawn for entries of which one has a null year and two have
\* years that flattening delivered in descending order.
C19_Witness ==
  /\ tlPc = "done"
  /\ \E k \in 1..Len(tlWords) : tlWords[k].year = <<>>
  /\ \E j, k \in 1..Len(tlWords) :
       /\ j < k
       /\ tlWords[j].year # <<>> /\ tlWords[k].year # <<>>
       /\ tlWords[j].year[1] > tlWords[k].year[1]
  /\ Len(tlOutput.markers) >= 2
  /\ Len(tlOutput.markers) < Len(tlWords)

\* ------------------------------------------------------------------------
\* C21: normalization of the lookup key
\* ------------------------------------------------------------------------

Digits == { "0", "1", "2", "3", "4", "5", "6", "7", "8", "9" }
IsAlphanumeric(c) ==
  \/ c \in Digits
  \/ \E k \in 1..Len(LowerCase) : c \in { LowerCase[k], UpperCase[k] }

FetchNormalized == ftPc \notin { "idle", "generate", "call" }

\* C21: the key getWordEtymology looks up is the search term lower-cased
\* with every non-alphanumeric character removed, so terms that differ
\* only in letter case or in such characters share one key.
C21_KeyNormalized ==
  FetchNormalized =>
    normalizedWord =
      SelectSeq(toLowerCase(ftTerm), LAMBDA c : IsAlphanumeric(c))

\* ------------------------------------------------------------------------
\* C22: the input is not modified
\* ------------------------------------------------------------------------

InputRefs == 1..Len(objInput)

\* C22: after flattenEtymologyTree and after the hierarchy was built and
\* indexed, the record and every nested entry are as they were; depth,
\* index and children are on objects allocated by buildSubtree only.
C22_InputUnchanged ==
  objPc \in { "build", "done" } =>
    /\ \A r \in InputRefs : objHeap[r] = objInput[r]
    /\ \A r \in InputRefs :
         /\ objHeap[r].depth = NoDepth
         /\ objHeap[r].index = NoIndex
         /\ objHeap[r].children = <<>>
    /\ \A k \in 1..Len(objResult) : objResult[k] \in InputRefs
    /\ objPc = "done" =>
         \A r \in (1..Len(objHeap)) \ InputRefs :
           /\ objHeap[r].depth >= 0
           /\ objHeap[r].index >= 0
           /\ \A k \in 1..Len(objHeap[r].children) :
                objHeap[r].children[k] \notin InputRefs

\* A hierarchy built for a record with nested roots: a copy with a child
\* and a copy with an index above 0 exist.
C22_Witness ==
  /\ objPc = "done"
  /\ \E r \in InputRefs : r > 1 /\ objInput[r].roots # <<>>
  /\ \E r \in (1..Len(objHeap)) \ InputRefs :
       objHeap[r].depth > 0 /\ objHeap[r].children # <<>>
  /\ \E r \in (1..Len(objHeap)) \ InputRefs : objHeap[r].index > 0

\* ------------------------------------------------------------------------
\* C23: edges are structural links
\* ------------------------------------------------------------------------

\* C23: every edge joins the node of a tree node at depth d to the node of
\* one of its children, at depth d + 1; no edge has one node as source and
\* target.
C23_EdgesStructural ==
  Rendered =>
    \A k \in 1..Len(edges) :
      /\ edges[k].source # edges[k].target
      /\ \E s, t \in 1..Len(nodes) :
           /\ nodes[s].id = edges[k].source
           /\ nodes[t].id = edges[k].target
           /\ DataOf(t).depth = DataOf(s).depth + 1
           /\ \E c \in 1..Len(DataOf(s).children) :
                DataOf(s).children[c] = nodes[t].data

\* ------------------------------------------------------------------------
\* C24: graph and flat list
\* ------------------------------------------------------------------------

WordsOfNodes == [ i \in 1..Len(nodes) |-> DataOf(i).word ]
WordsOfFlattened == [ i \in 1..Len(flattenedWords) |-> flattenedWords[i].word ]

\* C24: the rendered graph has as many nodes as the flattened sequence has
\* entries, and the same word strings with the same multiplicities.
C24_NodesMatchFlatten ==
  (Rendered /\ flattenedWords # <<>>) =>
    /\ Len(nodes) = Len(flattenedWords)
    /\ SameEntries(WordsOfNodes, WordsOfFlattened)

\* ------------------------------------------------------------------------
\* C25: edges of a record that was replaced
\* ------------------------------------------------------------------------

\* C25: once a mounted component has rendered the words it was given, its
\* edges are the edges computed from the current record: each joins two
\* current nodes, and a record with a single node has no edge.
C25_NoStaleEdges ==
  Rendered =>
    /\ edges = createEdges(parentChildMap, nodeIdMap)
    /\ \A k \in 1..Len(edges) :
         edges[k].source \in NodeIds /\ edges[k].target \in NodeIds
    /\ Len(nodes) = 1 => edges = <<>>

\* ------------------------------------------------------------------------
\* C26, C27, C28: the page
\* ------------------------------------------------------------------------

StateInitial == etymologyData = <<>> /\ error = <<>>
StateError == error # <<>> /\ etymologyData = <<>> /\ flattenedWords = <<>>
StateResults ==
  /\ etymologyData # <<>>
  /\ error = <<>>
  /\ flattenedWords = flattenEtymologyTree(etymologyData[1])

C28_LeavesLoading ==
  /\ [][ SearchSettles =>
           /\ ~loading'
           /\ View(etymologyData', loading', error') \in { "results", "error" }
       ]_vars
  /\ (loading ~> ~loading)

\* The error view after the try block threw.
C28_Witness ==
  /\ ~loading
  /\ CurrentView = "error"
  /\ error = << ErrorMessage("word.roots is not iterable") >>
  /\ searchedWord = << "monde" >>

\* ------------------------------------------------------------------------
\* C29: production fetch order
\* ------------------------------------------------------------------------

\* The nine requests of a production search that finds nothing, in order.
ProductionOrder ==
  LET via == << "raw", "raw", "raw", "raw", "raw",
                "api", "api", "api", "api" >>
      dir == << "English", "English", "French", "Latin", "Greek",
                "English", "French", "Latin", "Greek" >>
      pathOf(k) == "data/words/" \o dir[k] \o "/" \o charAt0(normalizedWord)
                     \o "/" \o Str(normalizedWord) \o ".json"
  IN  [ k \in 1..9 |->
          [ via |-> via[k],
            url |-> IF via[k] = "raw"
                    THEN "https://raw.githubusercontent.com/Ponchia/"
                           \o "etymology-website/main/" \o pathOf(k)
                    ELSE "",
            path |-> pathOf(k) ] ]

\* C29: in production the requests are sent in the order raw English, raw
\* English, French, Latin, Greek, API English, French, Latin, Greek; the
\* function stops at the first request that succeeds and returns its
\* record; only after all nine failed does it consult the sample data, and
\* it returns null when that has nothing.
C29_FetchOrder ==
  (~isDev /\ ftPc \in { "raw", "lang", "api", "fallback", "done" }) =>
    /\ Len(ftRequested) <= 9
    /\ ftRequested = SubSeq(ProductionOrder, 1, Len(ftRequested))
    /\ ftPc = "fallback" => Len(ftRequested) = 9
    /\ ftPc = "done" =>
         \/ /\ ftRequested # <<>>
            /\ MapHas(repoFiles, ftRequested[Len(ftRequested)].path)
            /\ ftResult =
                 << MapGet(repoFiles, ftRequested[Len(ftRequested)].path) >>
         \/ /\ Len(ftRequested) = 9
            /\ ftResult = SAMPLE_DATA(Str(normalizedWord))

\* A production search that the raw URLs and three API paths failed and
\* the API path of the Greek directory answered.
C29_Witness ==
  /\ ~isDev
  /\ FetchDone
  /\ Len(ftRequested) = 9
  /\ genLanguage = "Greek"
  /\ ftTerm = << "z", "e", "a", "l" >>
  /\ ftResult = << EtymologyRecord(Str(genWord), "Greek") >>

\* ------------------------------------------------------------------------
\* C30: marker positions
\* ------------------------------------------------------------------------

MarkersDrawn == tlPc = "done" /\ tlOutput.markers # <<>>

\* C30: when markers are drawn, the position of every marker is a number
\* from 0 to 100, a marker of the smallest year is at 0 and a marker of
\* the largest year is at 100.
C30_MarkerPositions ==
  MarkersDrawn =>
    LET left == tlOutput.left
        years == { tlOutput.markers[k].year[1] :
                     k \in 1..Len(tlOutput.markers) }
    IN  /\ Len(left) = Len(tlOutput.markers)
        /\ \A k \in 1..Len(left) :
             /\ ~left[k].nan
             /\ left[k].den > 0
             /\ 0 <= left[k].num
             /\ left[k].num <= 100 * left[k].den
        /\ \E k \in 1..Len(left) :
             /\ \A y \in years : tlOutput.markers[k].year[1] <= y
             /\ left[k].num = 0
        /\ \E k \in 1..Len(left) :
             /\ \A y \in years : tlOutput.markers[k].year[1] >= y
             /\ left[k].num = 100 * left[k].den

\* Markers drawn for dated words of different years have positions.
DistinctYearsPositioned ==
  (MarkersDrawn /\ \E j, k \in 1..Len(tlOutput.markers) :
                     tlOutput.markers[j].year # tlOutput.markers[k].year)
    => \A k \in 1..Len(tlOutput.left) :
         /\ ~tlOutput.left[k].nan
         /\ 0 <= tlOutput.left[k].num
         /\ tlOutput.left[k].num <= 100 * tlOutput.left[k].den

====
